---- MODULE Spec2Model ----
(***************************************************************************)
(* Model of the BROOK compliance checker, semantic upgrade v0.2            *)
(* (run_compliance_check_semantic.py).                                     *)
(*                                                                         *)
(* Text is a sequence of one-character strings.  Regular expressions are   *)
(* modelled for the fragment the rule sets here use: lists of literal      *)
(* patterns joined into one case-insensitive alternation.  A pattern that  *)
(* contains "(" is an unbalanced group: compiling it raises re.error.      *)
(* Confidence values are kept in hundredths (0.95 is 95).                  *)
(***************************************************************************)
EXTENDS Integers, Sequences, FiniteSets, TLC

\* ------------------------------------------------------------------ bounds
MaxWords == 3          \* words per document text
MaxThreshold == 2      \* largest integer threshold a rule carries
MaxRules == 3          \* rules per rule set handed to main

\* ------------------------------------------------- characters and strings
UpperChars == {"O", "K", "N", "B", "A", "X", "H", "S", "Z", "F"}
LowerChars == {"o", "k", "n", "b", "a", "x", "h", "s", "z", "f"}
DigitChars == {"4"}

lower(c) ==
    CASE c = "O" -> "o" [] c = "K" -> "k" [] c = "N" -> "n" [] c = "B" -> "b"
      [] c = "A" -> "a" [] c = "X" -> "x" [] c = "H" -> "h" [] c = "S" -> "s"
      [] c = "Z" -> "z" [] c = "F" -> "f" [] OTHER -> c

upper(c) ==
    CASE c = "o" -> "O" [] c = "k" -> "K" [] c = "n" -> "N" [] c = "b" -> "B"
      [] c = "a" -> "A" [] c = "x" -> "X" [] c = "h" -> "H" [] c = "s" -> "S"
      [] c = "z" -> "Z" [] c = "f" -> "F" [] OTHER -> c

LowerStr(s) == [k \in 1..Len(s) |-> lower(s[k])]
UpperStr(s) == [k \in 1..Len(s) |-> upper(s[k])]

IsLetter(c) == c \in UpperChars \cup LowerChars
IsAlnum(c) == IsLetter(c) \/ c \in DigitChars
IsWordChar(c) == IsAlnum(c) \/ c = "_"
IsSpace(c) == c \in {" ", "\n"}

Max(a, b) == IF a >= b THEN a ELSE b
Min(a, b) == IF a <= b THEN a ELSE b

\* Python slice text[a:b] with 0 <= a, b <= len(text) (0-based, end exclusive).
Slice(text, a, b) == SubSeq(text, a + 1, b)

\* True iff pat occurs in text at 0-based offset i, compared exactly.
OccursAt(pat, text, i) ==
    /\ i >= 0
    /\ i + Len(pat) <= Len(text)
    /\ \A k \in 1..Len(pat) : text[i + k] = pat[k]

\* Python "pat in text" for strings.
Contains(text, pat) == \E i \in 0..Len(text) : OccursAt(pat, text, i)

\* Literal pattern matched under re.IGNORECASE at offset i.
MatchAtI(pat, text, i) ==
    /\ i >= 0
    /\ i + Len(pat) <= Len(text)
    /\ \A k \in 1..Len(pat) : lower(text[i + k]) = lower(pat[k])

RECURSIVE Flatten(_)
Flatten(ws) == IF ws = <<>> THEN <<>> ELSE Head(ws) \o Flatten(Tail(ws))

\* sep.join(parts)
RECURSIVE Join(_, _)
Join(sep, parts) ==
    IF parts = <<>> THEN <<>>
    ELSE IF Len(parts) = 1 THEN parts[1]
    ELSE parts[1] \o sep \o Join(sep, Tail(parts))

\* --------------------------------------------------------- text utilities
SNIPPET_MARGIN == 120

\* str.replace("\\n", " "): the two-character sequence backslash, n.
RECURSIVE ReplaceBackslashN(_)
ReplaceBackslashN(s) ==
    IF ~(\E k \in 1..(Len(s) - 1) : s[k] = "\\" /\ s[k + 1] = "n") THEN s
    ELSE IF s[1] = "\\" /\ s[2] = "n"
         THEN <<" ">> \o ReplaceBackslashN(SubSeq(s, 3, Len(s)))
         ELSE <<s[1]>> \o ReplaceBackslashN(Tail(s))

RECURSIVE LStrip(_)
LStrip(s) == IF s # <<>> /\ IsSpace(s[1]) THEN LStrip(Tail(s)) ELSE s

RECURSIVE RStrip(_)
RStrip(s) ==
    IF s # <<>> /\ IsSpace(s[Len(s)]) THEN RStrip(SubSeq(s, 1, Len(s) - 1)) ELSE s

Strip(s) == RStrip(LStrip(s))

snippet(text, start, end) ==
    LET a == Max(0, start - SNIPPET_MARGIN)
        b == Min(Len(text), end + SNIPPET_MARGIN)
    IN  Strip(ReplaceBackslashN(Slice(text, a, b)))

\* ------------------------------------------------------ pattern matcher
\* A pattern field of a rule: kind "absent" (key missing), "list" (a list of
\* pattern strings in pats) or "str" (a bare string whose text is pats[1]).
AbsentField == [kind |-> "absent", pats |-> <<>>]
ListField(ps) == [kind |-> "list", pats |-> ps]
StrField(s) == [kind |-> "str", pats |-> <<s>>]

\* What "for p in (patterns or [])" iterates over: the elements of a list,
\* the one-character substrings of a string.
IterPatterns(field) ==
    IF field.kind = "str"
    THEN [k \in 1..Len(field.pats[1]) |-> <<field.pats[1][k]>>]
    ELSE field.pats

NonEmptyOnly(ps) == SelectSeq(ps, LAMBDA p : p # <<>>)

Malformed(p) == \E k \in 1..Len(p) : p[k] = "("

\* any_regex: st = "none" (returns None), "ok" (compiled alternation of
\* pats, tried in list order) or "error" (re.compile raises re.error).
any_regex(field) ==
    LET pats == NonEmptyOnly(IterPatterns(field))
    IN  IF pats = <<>> THEN [st |-> "none", pats |-> <<>>]
        ELSE IF \E k \in 1..Len(pats) : Malformed(pats[k])
             THEN [st |-> "error", pats |-> pats]
             ELSE [st |-> "ok", pats |-> pats]

\* Index of the first alternative that matches at offset i, 0 if none.
FirstAlt(pats, text, i) ==
    IF \E k \in 1..Len(pats) : MatchAtI(pats[k], text, i)
    THEN CHOOSE k \in 1..Len(pats) :
            /\ MatchAtI(pats[k], text, i)
            /\ \A j \in 1..(k - 1) : ~MatchAtI(pats[j], text, i)
    ELSE 0

\* pattern.finditer(text): spans <<start, end>> left to right, non-overlapping.
RECURSIVE FindFrom(_, _, _)
FindFrom(pats, text, i) ==
    IF i >= Len(text) THEN <<>>
    ELSE LET k == FirstAlt(pats, text, i)
         IN  IF k = 0 THEN FindFrom(pats, text, i + 1)
             ELSE <<(<<i, i + Len(pats[k])>>)>> \o FindFrom(pats, text, i + Len(pats[k]))

find_all(re, text) ==
    IF re.st # "ok" \/ text = <<>> THEN <<>> ELSE FindFrom(re.pats, text, 0)

\* pattern.search(text) is not None
Search(pats, text) ==
    \E i \in 0..Len(text) : \E k \in 1..Len(pats) : MatchAtI(pats[k], text, i)

window_has_negative(text, span, neg_re, char_window) ==
    IF neg_re.st # "ok" THEN FALSE
    ELSE LET a == Max(0, span[1] - char_window)
             b == Min(Len(text), span[2] + char_window)
         IN  Search(neg_re.pats, Slice(text, a, b))

\* -------------------------------------------------- fact alignment checker
\* ops_facts value: isdict FALSE is None; keys are the keys the dict carries.
NoFacts == [isdict |-> FALSE, keys |-> {}, registrations |-> <<>>, area |-> <<>>]
RegFacts(regs) ==
    [isdict |-> TRUE, keys |-> {"registrations"}, registrations |-> regs, area |-> <<>>]
AreaFacts(areas) ==
    [isdict |-> TRUE, keys |-> {"area"}, registrations |-> <<>>, area |-> areas]

\* Python truthiness of an ops_facts value: a dict with at least one key.
Truthy(f) == f.isdict /\ f.keys # {}

\* rule.get("ops_facts") or ops_facts or {}
EffectiveFacts(rule_facts, ops_facts) ==
    IF Truthy(rule_facts) THEN rule_facts
    ELSE IF Truthy(ops_facts) THEN ops_facts
    ELSE [isdict |-> TRUE, keys |-> {}, registrations |-> <<>>, area |-> <<>>]

\* re.search(re.escape(r), doc_text, re.I) is not None
SearchLiteralI(r, text) == \E i \in 0..Len(text) : MatchAtI(r, text, i)

MissingRegs(regs, text) == SelectSeq(regs, LAMBDA r : ~SearchLiteralI(r, text))

\* \b at offset i of text: word-ness differs on the two sides.
WordBoundary(text, i) ==
    LET before == i >= 1 /\ IsWordChar(text[i])
        after == i < Len(text) /\ IsWordChar(text[i + 1])
    IN  before # after

\* [0-9A-Z]{n}-[A-Z]{3}\b at offset i under re.I, for prefix length n.
RegShapeAt(text, i, n) ==
    /\ i + n + 4 <= Len(text)
    /\ \A k \in 1..n : IsAlnum(text[i + k])
    /\ text[i + n + 1] = "-"
    /\ \A k \in 1..3 : IsLetter(text[i + n + 1 + k])
    /\ WordBoundary(text, i + n + 4)

\* Length of the match of \b[0-9A-Z]{1,2}-[A-Z]{3}\b at offset i (greedy
\* prefix first), 0 if there is none.
RegMatchLen(text, i) ==
    IF ~WordBoundary(text, i) THEN 0
    ELSE IF RegShapeAt(text, i, 2) THEN 6
    ELSE IF RegShapeAt(text, i, 1) THEN 5
    ELSE 0

\* set(re.findall(...)): the matched strings, as written in the text.
RECURSIVE RegsFrom(_, _)
RegsFrom(text, i) ==
    IF i >= Len(text) THEN {}
    ELSE LET n == RegMatchLen(text, i)
         IN  IF n = 0 THEN RegsFrom(text, i + 1)
             ELSE {Slice(text, i, i + n)} \cup RegsFrom(text, i + n)

AllRegsFound(text) == RegsFrom(text, 0)

\* Code point order of the characters that occur in registration codes.
Ord(c) ==
    CASE c = "-" -> 45 [] c = "4" -> 52
      [] c = "A" -> 65 [] c = "B" -> 66 [] c = "F" -> 70 [] c = "H" -> 72
      [] c = "K" -> 75 [] c = "N" -> 78 [] c = "O" -> 79 [] c = "S" -> 83
      [] c = "X" -> 88 [] c = "Z" -> 90
      [] c = "a" -> 97 [] c = "b" -> 98 [] c = "f" -> 102 [] c = "h" -> 104
      [] c = "k" -> 107 [] c = "n" -> 110 [] c = "o" -> 111 [] c = "s" -> 115
      [] c = "x" -> 120 [] c = "z" -> 122
      [] OTHER -> 32

RECURSIVE StrLess(_, _)
StrLess(s, t) ==
    IF t = <<>> THEN FALSE
    ELSE IF s = <<>> THEN TRUE
    ELSE IF Ord(s[1]) # Ord(t[1]) THEN Ord(s[1]) < Ord(t[1])
    ELSE StrLess(Tail(s), Tail(t))

\* sorted(set_of_strings)
RECURSIVE Sorted(_)
Sorted(S) ==
    IF S = {} THEN <<>>
    ELSE LET m == CHOOSE x \in S : \A y \in S \ {x} : StrLess(x, y)
         IN  <<m>> \o Sorted(S \ {m})

\* Mutant of Extras: the "not" of the filter is dropped.
Extras_Inverted(regs, text) ==
    LET expected == {UpperStr(regs[k]) : k \in 1..Len(regs)}
    IN  SelectSeq(Sorted(AllRegsFound(text)), LAMBDA r : UpperStr(r) \in expected)

\* extras = [r for r in sorted(all_regs_found) if r.upper() not in {x.upper() for x in regs}]
Extras(regs, text) ==
    LET expected == {UpperStr(regs[k]) : k \in 1..Len(regs)}
    IN  SelectSeq(Sorted(AllRegsFound(text)), LAMBDA r : UpperStr(r) \notin expected)

ExtraPrefix ==
    <<"E", "x", "t", "r", "a", " ", "r", "e", "g", " ", "i", "n", " ",
      "m", "a", "n", "u", "a", "l", "s", ":", " ">>

ExtraSnips(regs, text) ==
    LET ex == Extras(regs, text)
    IN  [k \in 1..Len(ex) |-> ExtraPrefix \o ex[k]]

\* any(re.search(re.escape(a), doc_text, re.I) for a in desired)
AreaStated(areas, text) ==
    \E k \in 1..Len(areas) : SearchLiteralI(UpperStr(areas[k]), text)

MissingRegsNote(missing) == [msg |-> "Missing registrations in manuals", items |-> missing]
AreaNote == [msg |-> "Area from OpsSpecs not clearly stated in manuals", items |-> <<>>]
Note(m) == [msg |-> m, items |-> <<>>]

\* The notes list built by the alignment branch.
AlignNotes(of, text) ==
    LET missing == MissingRegs(of.registrations, text)
    IN  (IF of.registrations # <<>> /\ missing # <<>>
         THEN <<MissingRegsNote(missing)>> ELSE <<>>)
        \o
        (IF of.area # <<>> /\ ~AreaStated(of.area, text)
         THEN <<AreaNote>> ELSE <<>>)

\* --------------------------------------------------------- rule evaluator
RuleTypes == {"affirm", "deny", "limit", "align_with_opspecs"}

\* A threshold / negation_window_tokens field: kind "absent", "int" (val),
\* "numstr" (a string that spells the integer val) or "badstr" (a string
\* that spells no integer).
AbsentInt == [kind |-> "absent", val |-> 0]
IntVal(n) == [kind |-> "int", val |-> n]
NumStr(n) == [kind |-> "numstr", val |-> n]
BadStr == [kind |-> "badstr", val |-> 0]

\* int(rule.get(key, default)): ok FALSE when int() raises ValueError.
ToInt(field, default) ==
    CASE field.kind = "absent" -> [ok |-> TRUE, val |-> default]
      [] field.kind = "int" -> [ok |-> TRUE, val |-> field.val]
      [] field.kind = "numstr" -> [ok |-> TRUE, val |-> field.val]
      [] OTHER -> [ok |-> FALSE, val |-> 0]

Outcome(decision, pos, forb, pat, conf, notes) ==
    [kind |-> "outcome", decision |-> decision, matched_positive |-> pos,
     matched_forbidden |-> forb, matched_pattern |-> pat, confidence |-> conf,
     notes |-> notes, exc |-> ""]

\* The call does not return: exception exc propagates to the caller.
Raise(exc) ==
    [kind |-> "raise", decision |-> "", matched_positive |-> <<>>,
     matched_forbidden |-> <<>>, matched_pattern |-> <<>>, confidence |-> 0,
     notes |-> <<>>, exc |-> exc]

\* Patterns the legacy loop visits, in order: those of the checks whose type
\* is "contains_any".
RECURSIVE LegacyPatterns(_)
LegacyPatterns(checks) ==
    IF checks = <<>> THEN <<>>
    ELSE (IF Head(checks).type = "contains_any" THEN Head(checks).patterns ELSE <<>>)
         \o LegacyPatterns(Tail(checks))

\* Mutant of LegacyHit: the comparison is case-sensitive.
LegacyHit_CaseSensitive(pat, doc_text) == pat # <<>> /\ Contains(doc_text, pat)

\* Mutant of LegacyHit: the empty pattern is not skipped.
LegacyHit_NoEmptyGuard(pat, doc_text) == Contains(LowerStr(doc_text), LowerStr(pat))

\* pat and pat.lower() in (doc_text or "").lower()
LegacyHit(pat, doc_text) == pat # <<>> /\ Contains(LowerStr(doc_text), LowerStr(pat))

EvaluateLegacy(rule, doc_text) ==
    LET hits == SelectSeq(LegacyPatterns(rule.checks), LAMBDA p : LegacyHit(p, doc_text))
    IN  IF hits # <<>>
        THEN Outcome("FOUND", <<>>, <<>>, hits[1], 60, <<Note("Legacy contains_any match")>>)
        ELSE Outcome("MISSING", <<>>, <<>>, <<>>, 0, <<Note("Legacy contains_any not found")>>)

Snips(text, spans) == [k \in 1..Len(spans) |-> snippet(text, spans[k][1], spans[k][2])]

\* Mutant of FoundConfidence: the cap at 1.0 is missing.
FoundConfidence_Uncapped(pos_hits, threshold) == 60 + 20 * (pos_hits - threshold)

\* min(1.0, 0.6 + 0.2 * (pos_hits - threshold)), in hundredths
FoundConfidence(pos_hits, threshold) == Min(100, 60 + 20 * (pos_hits - threshold))

\* Mutant of MeetsThreshold: strict comparison.
MeetsThreshold_Strict(pos_hits, threshold) == pos_hits > threshold

\* if pos_hits >= threshold
MeetsThreshold(pos_hits, threshold) == pos_hits >= threshold

\* The guard of the alignment CONFLICT return: if matched_forbidden_snips
AlignConflictGuard(matched_forbidden_snips) == matched_forbidden_snips # <<>>

\* Step 4 of evaluate_rule_semantic ("Decide").
Decide(pos_hits, threshold, pos_snips, forb_snips, first_pattern) ==
    IF MeetsThreshold(pos_hits, threshold)
    THEN Outcome("FOUND", pos_snips, <<>>, first_pattern,
                 FoundConfidence(pos_hits, threshold), <<>>)
    ELSE IF pos_snips # <<>> /\ forb_snips # <<>>
    THEN Outcome("REVIEW", pos_snips, forb_snips, first_pattern, 50,
                 <<Note("Positive evidence appears near negations/contradictions")>>)
    ELSE Outcome("MISSING", <<>>, <<>>, first_pattern, 0, <<>>)

\* The spans of the positive matches, split by the local negation check.
PositiveSpans(pos_re, doc_text) == find_all(pos_re, doc_text)

CleanSpans(pos_re, neg_re, doc_text, char_window) ==
    SelectSeq(PositiveSpans(pos_re, doc_text),
              LAMBDA sp : ~window_has_negative(doc_text, sp, neg_re, char_window))

SuppressedSpans(pos_re, neg_re, doc_text, char_window) ==
    SelectSeq(PositiveSpans(pos_re, doc_text),
              LAMBDA sp : window_has_negative(doc_text, sp, neg_re, char_window))

\* Mutant of ForbiddenGuard: the hard conflict is applied to deny and limit
\* rules only.
ForbiddenGuard_DenyLimitOnly(forbidden_snips, rule_type) ==
    forbidden_snips # <<>> /\ rule_type \in {"deny", "limit"}

\* The guard of the forbidden-claim return.
ForbiddenGuard(forbidden_snips, rule_type) ==
    forbidden_snips # <<>> /\ rule_type \in {"deny", "limit", "align_with_opspecs", "affirm"}

\* The guard of the alignment branch.
AlignBranchTaken(rule_type, rule_facts, ops_facts) ==
    rule_type = "align_with_opspecs" /\ (Truthy(ops_facts) \/ Truthy(rule_facts))

\* char_window = max(0, int(negation_window_tokens) * 6)
CharWindow(tokens) == Max(0, tokens * 6)

\* rule.get("rule_type", "affirm"); an absent key is the empty string here.
RuleTypeOf(rule) == IF rule.rule_type = "" THEN "affirm" ELSE rule.rule_type

\* Steps 1-4 of the semantic path, once the patterns compiled and the
\* numbers parsed.
EvaluateCompiled(rule, doc_text, ops_facts, pos_re, neg_re, forbid_re, threshold, char_window) ==
    LET rule_type == RuleTypeOf(rule)
        forbidden == Snips(doc_text, find_all(forbid_re, doc_text))
        clean == CleanSpans(pos_re, neg_re, doc_text, char_window)
        suppressed == SuppressedSpans(pos_re, neg_re, doc_text, char_window)
        pos_hits == Len(clean)
        pos_snips == Snips(doc_text, clean)
        first_pattern == IF clean = <<>> THEN <<>> ELSE Slice(doc_text, clean[1][1], clean[1][2])
        forb2 == forbidden \o Snips(doc_text, suppressed)
        of == EffectiveFacts(rule.ops_facts, ops_facts)
        forb3 == forb2 \o (IF of.registrations # <<>>
                           THEN ExtraSnips(of.registrations, doc_text) ELSE <<>>)
        notes == AlignNotes(of, doc_text)
    IN  IF ForbiddenGuard(forbidden, rule_type)
        THEN Outcome("CONFLICT", <<>>, forbidden, <<>>, 95, <<Note("Forbidden claim(s) present")>>)
        ELSE IF AlignBranchTaken(rule_type, rule.ops_facts, ops_facts)
        THEN IF AlignConflictGuard(forb3)
             THEN Outcome("CONFLICT", pos_snips, forb3, first_pattern, 90,
                          IF notes # <<>> THEN notes ELSE <<Note("Conflict with ops_facts")>>)
             ELSE IF notes # <<>> /\ pos_hits < threshold
             THEN Outcome("MISSING", pos_snips, <<>>, first_pattern, 20, notes)
             ELSE Decide(pos_hits, threshold, pos_snips, forb3, first_pattern)
        ELSE Decide(pos_hits, threshold, pos_snips, forb2, first_pattern)

evaluate_rule_semantic(rule, doc_text, ops_facts) ==
    IF rule.checks # <<>> THEN EvaluateLegacy(rule, doc_text)
    ELSE LET pos_re == any_regex(rule.positive_patterns)
             neg_re == any_regex(rule.negative_patterns)
             forbid_re == any_regex(rule.forbidden_claims)
             threshold == ToInt(rule.threshold, 1)
             tokens == ToInt(rule.negation_window_tokens, 12)
         IN  IF pos_re.st = "error" \/ neg_re.st = "error" \/ forbid_re.st = "error"
             THEN Raise("re.error")
             ELSE IF ~threshold.ok \/ ~tokens.ok THEN Raise("ValueError")
             ELSE EvaluateCompiled(rule, doc_text, ops_facts, pos_re, neg_re, forbid_re,
                                   threshold.val, CharWindow(tokens.val))

\* ------------------------------------------------------------------ inputs
W_ok == <<"O", "k", " ">>
W_no == <<"n", "o", " ">>
W_ban == <<"b", "a", "n", " ">>
W_reg == <<"4", "X", "-", "B", "H", "S", " ">>
W_extra == <<"4", "x", "-", "z", "z", "z", " ">>
Vocabulary == {W_ok, W_no, W_ban, W_reg, W_extra}

RECURSIVE WordSeqs(_)
WordSeqs(n) ==
    IF n = 0 THEN {<<>>}
    ELSE LET shorter == WordSeqs(n - 1)
         IN  shorter \cup {Append(ws, w) : ws \in {x \in shorter : Len(x) = n - 1}, w \in Vocabulary}

Texts == {Flatten(ws) : ws \in WordSeqs(MaxWords)}

P_ok == <<"o", "k">>
P_no == <<"n", "o">>
P_ban == <<"b", "a", "n">>
P_OK == <<"O", "K">>
P_bad == <<"(">>
R_BHS == <<"4", "X", "-", "B", "H", "S">>
R_ZZZ == <<"4", "X", "-", "Z", "Z", "Z">>
A_zz == <<"z", "z">>

Check(type, patterns) == [type |-> type, patterns |-> patterns]

Rule(id, rule_type, checks, pos, neg, forb, threshold, tokens, facts, source_docs) ==
    [id |-> id, rule_type |-> rule_type, checks |-> checks,
     positive_patterns |-> pos, negative_patterns |-> neg, forbidden_claims |-> forb,
     threshold |-> threshold, negation_window_tokens |-> tokens,
     ops_facts |-> facts, source_docs |-> source_docs]

DefaultDocs == [present |-> FALSE, keys |-> <<>>]
Docs(keys) == [present |-> TRUE, keys |-> keys]

Thresholds == {AbsentInt} \cup {IntVal(n) : n \in 0..MaxThreshold}
NegFields == {AbsentField, ListField(<<P_no>>)}
ForbFields == {AbsentField, ListField(<<P_ban>>)}

\* Positive and negative patterns together; negatives only matter next to
\* positives.
PosNegFields ==
    {<<AbsentField, AbsentField>>, <<ListField(<<P_ok>>), AbsentField>>,
     <<ListField(<<P_ok>>), ListField(<<P_no>>)>>}

\* Rule facts and run facts together; the rule's own facts take precedence.
FactsPairs ==
    {<<NoFacts, NoFacts>>, <<NoFacts, RegFacts(<<R_BHS>>)>>, <<NoFacts, AreaFacts(<<A_zz>>)>>,
     <<RegFacts(<<R_ZZZ>>), RegFacts(<<R_BHS>>)>>}

\* Well-formed semantic rules that never take the alignment branch: the
\* default type, and a type the evaluator does not know.
PlainInputs ==
    {<<Rule("R", t, <<>>, pn[1], pn[2], f, th, IntVal(1), NoFacts, DefaultDocs), NoFacts>> :
        t \in {"affirm", "custom"}, pn \in PosNegFields, f \in ForbFields, th \in Thresholds}

\* The other two types, which the evaluator treats like "affirm".
DenyLimitInputs ==
    {<<Rule("R", t, <<>>, ListField(<<P_ok>>), n, f, th, IntVal(1), NoFacts, DefaultDocs),
       AreaFacts(<<A_zz>>)>> :
        t \in {"deny", "limit"}, n \in NegFields, f \in ForbFields,
        th \in {IntVal(1), IntVal(MaxThreshold)}}

AlignInputs ==
    {<<Rule("R", "align_with_opspecs", <<>>, pn[1], pn[2], f, th, IntVal(1), fp[1], DefaultDocs),
       fp[2]>> :
        pn \in PosNegFields, f \in ForbFields, th \in Thresholds, fp \in FactsPairs}

\* Rules that vary the negation window, the defaults and the alternation.
WindowInputs ==
    {<<Rule("R", t, <<>>, pw[1], ListField(<<P_no>>), AbsentField, th, pw[2], NoFacts,
            DefaultDocs), RegFacts(<<R_BHS>>)>> :
        t \in {"", "align_with_opspecs"},
        th \in {IntVal(1), IntVal(MaxThreshold)},
        pw \in ({ListField(<<P_ok>>)} \X {AbsentInt, IntVal(0), IntVal(-1), IntVal(2)})
               \cup {<<ListField(<<(<<>>), P_ban, P_ok>>), IntVal(1)>>}}

\* Rules whose fields do not have the documented types, or do not compile.
MalformedInputs ==
    {<<Rule("R", "affirm", <<>>, p, AbsentField, f, th, IntVal(1), NoFacts, DefaultDocs),
       NoFacts>> :
        p \in {ListField(<<P_ok>>), StrField(P_ok), ListField(<<P_ok, P_bad>>)},
        f \in {AbsentField, StrField(P_ban)},
        th \in {IntVal(1), NumStr(MaxThreshold), BadStr}}
    \cup
    {<<Rule("R", "affirm", <<Check("contains_any", <<P_ok>>)>>, ListField(<<P_ok, P_bad>>),
            AbsentField, StrField(P_ban), th, IntVal(1), NoFacts, DefaultDocs), NoFacts>> :
        th \in {IntVal(1), NumStr(MaxThreshold), BadStr}}
    \cup
    {<<Rule("R", "affirm", <<>>, ListField(<<P_ok>>), n, AbsentField, IntVal(1), BadStr,
            NoFacts, DefaultDocs), NoFacts>> :
        n \in {AbsentField, ListField(<<P_bad>>)}}

LegacyChecks ==
    { <<Check("contains_any", <<P_OK>>)>>,
      <<Check("contains_any", <<P_no, P_ban>>)>>,
      <<Check("contains_any", <<>>)>>,
      <<Check("contains_any", <<(<<>>)>>)>>,
      <<Check("contains_any", <<(<<>>), P_ban>>)>>,
      <<Check("regex", <<P_ok>>)>>,
      <<Check("regex", <<P_ok>>), Check("contains_any", <<P_ban, P_ok>>)>> }

LegacyInputs ==
    {<<Rule("R", "affirm", c, ListField(<<P_ok>>), ListField(<<P_no>>), f,
            IntVal(MaxThreshold), IntVal(1), NoFacts, DefaultDocs), NoFacts>> :
        c \in LegacyChecks, f \in ForbFields}
    \cup
    {<<Rule("R", "align_with_opspecs", c, AbsentField, AbsentField, AbsentField, IntVal(0),
            IntVal(1), RegFacts(<<R_ZZZ>>), DefaultDocs), RegFacts(<<R_BHS>>)>> :
        c \in LegacyChecks}

\* The <<rule, ops_facts>> pairs evaluate_rule_semantic is called with.
EvalInputs ==
    PlainInputs \cup DenyLimitInputs \cup AlignInputs \cup WindowInputs
    \cup MalformedInputs \cup LegacyInputs

\* -------------------------------------------------------- report assembler
DOC_KEYS == {"OpsSpecs", "AOC", "OM-A", "OM-B", "OM-C", "OM-D", "MEL", "MCM", "SMS", "ERP"}

\* A file of DOC_FILES on disk: absent, unreadable (the reader throws) or
\* readable with the given text.
NoFile == [exists |-> FALSE, readable |-> FALSE, content |-> <<>>]
BrokenFile == [exists |-> TRUE, readable |-> FALSE, content |-> <<>>]
TextFile(t) == [exists |-> TRUE, readable |-> TRUE, content |-> t]

load_text_from_doc(file) ==
    IF ~file.exists THEN <<>>
    ELSE IF ~file.readable THEN <<>>
    ELSE file.content

\* r.get("source_docs", ["OpsSpecs"])
SourceDocs(r) == IF r.source_docs.present THEN r.source_docs.keys ELSE <<"OpsSpecs">>

\* text_cache.get(k, "")
CacheGet(cache, k) == IF k \in DOMAIN cache THEN cache[k] ELSE <<>>

\* "\n".join(text_cache.get(k, "") for k in src_docs)
CombinedText(cache, src_docs) ==
    Join(<<"\n">>, [k \in 1..Len(src_docs) |-> CacheGet(cache, src_docs[k])])

\* list[:3]
FirstThree(xs) == SubSeq(xs, 1, Min(3, Len(xs)))

ReportRow(r, out) ==
    [rule_id |-> r.id, source_docs |-> SourceDocs(r), result |-> out.decision,
     matched_pattern |-> out.matched_pattern,
     evidence |-> FirstThree(out.matched_positive),
     contradiction |-> FirstThree(out.matched_forbidden),
     confidence |-> out.confidence, notes |-> out.notes]

\* Mutant of AppendRow: the row is put in front.
AppendRow_Prepend(rows, row) == <<row>> \o rows

\* results.append(row)
AppendRow(rows, row) == Append(rows, row)

\* ------------------------------------------------------------- variables
VARIABLES
    pc,          \* "idle", "call", "return": position of one evaluate_rule_semantic call
    rule,        \* the rule under evaluation
    doc_text,    \* the combined document text it is evaluated against
    ops_facts,   \* the run-level facts (None is NoFacts)
    outcome,     \* what the call returned or raised
    mpc,         \* position of main: "idle", "load_rules", "load_facts", "load_docs",
                 \* "eval", "done", "aborted"
    raw,         \* the parsed rules JSON
    facts_file,  \* the optional facts file given on the command line
    files,       \* the document files on disk
    rules,       \* the rule list main iterates over
    text_cache,  \* document key -> extracted text
    idx,         \* number of rules processed so far
    results,     \* the rows collected so far
    reports      \* the reports written to disk, in order

vars == <<pc, rule, doc_text, ops_facts, outcome, mpc, raw, facts_file, files,
          rules, text_cache, idx, results, reports>>

evalVars == <<pc, rule, doc_text, outcome>>
mainVars == <<mpc, raw, facts_file, files, rules, text_cache, idx, results, reports>>

Pending ==
    [kind |-> "pending", decision |-> "", matched_positive |-> <<>>,
     matched_forbidden |-> <<>>, matched_pattern |-> <<>>, confidence |-> 0,
     notes |-> <<>>, exc |-> ""]

NoRule == Rule("", "", <<>>, AbsentField, AbsentField, AbsentField, AbsentInt, AbsentInt,
               NoFacts, DefaultDocs)

NoRaw == [shape |-> "list", rules |-> <<>>]
NoFactsFile == [given |-> FALSE, readable |-> FALSE, content |-> NoFacts]

\* ---------------------------------------- one call of evaluate_rule_semantic
InitEval ==
    /\ pc = "call"
    /\ \E inp \in EvalInputs : rule = inp[1] /\ ops_facts = inp[2]
    /\ doc_text \in Texts
    /\ outcome = Pending
    /\ mpc = "idle"
    /\ raw = NoRaw
    /\ facts_file = NoFactsFile
    /\ files = [k \in DOC_KEYS |-> NoFile]
    /\ rules = <<>>
    /\ text_cache = <<>>
    /\ idx = 0
    /\ results = <<>>
    /\ reports = <<>>

Evaluate ==
    /\ pc = "call"
    /\ outcome' = evaluate_rule_semantic(rule, doc_text, ops_facts)
    /\ pc' = "return"
    /\ UNCHANGED <<rule, doc_text, ops_facts>>
    /\ UNCHANGED mainVars

NextEval == Evaluate

SpecEval == InitEval /\ [][NextEval]_vars

\* --------------------------------------------------------------- main
T_ops == W_ok \o W_reg
T_oma == W_no \o W_ban

M_legacy == Rule("L1", "", <<Check("contains_any", <<P_OK>>)>>, AbsentField, AbsentField,
                 AbsentField, AbsentInt, AbsentInt, NoFacts, DefaultDocs)
M_unknown == Rule("S1", "affirm", <<>>, ListField(<<P_ok>>), ListField(<<P_no>>),
                  AbsentField, IntVal(1), IntVal(1), NoFacts, Docs(<<"Annex", "OM-A">>))
M_align == Rule("A1", "align_with_opspecs", <<>>, ListField(<<P_ok>>), AbsentField,
                ListField(<<P_ban>>), AbsentInt, AbsentInt, NoFacts, Docs(<<"OpsSpecs", "OM-A">>))
M_badregex == Rule("B1", "deny", <<>>, ListField(<<P_bad>>), AbsentField, AbsentField,
                   IntVal(1), AbsentInt, NoFacts, DefaultDocs)
M_badthreshold == Rule("B2", "limit", <<>>, ListField(<<P_ok>>), AbsentField, AbsentField,
                       BadStr, AbsentInt, NoFacts, Docs(<<"OM-A">>))

RulePalette == {M_legacy, M_unknown, M_align, M_badregex, M_badthreshold}

RECURSIVE RuleLists(_)
RuleLists(n) ==
    IF n = 0 THEN {<<>>}
    ELSE LET shorter == RuleLists(n - 1)
         IN  shorter \cup {Append(rs, r) : rs \in {x \in shorter : Len(x) = n - 1}, r \in RulePalette}

\* json.loads of the rules file: {"rules": [...]} is "wrapped", a bare list is
\* "list", anything else (a dict without "rules", a string, a number) is "other".
RawInputs ==
    {[shape |-> sh, rules |-> rs] : sh \in {"wrapped", "list"}, rs \in RuleLists(MaxRules)}
    \cup {[shape |-> "other", rules |-> <<>>]}

FactsFiles ==
    {NoFactsFile,
     [given |-> TRUE, readable |-> FALSE, content |-> NoFacts],
     [given |-> TRUE, readable |-> TRUE, content |-> RegFacts(<<R_BHS>>)]}

FileSystems ==
    {[k \in DOC_KEYS |-> IF k = "OpsSpecs" THEN a ELSE IF k = "OM-A" THEN b ELSE NoFile] :
        a \in {NoFile, BrokenFile, TextFile(T_ops)}, b \in {NoFile, TextFile(T_oma)}}

InitMain ==
    /\ mpc = "load_rules"
    /\ raw \in RawInputs
    /\ facts_file \in FactsFiles
    /\ files \in FileSystems
    /\ rules = <<>>
    /\ ops_facts = NoFacts
    /\ text_cache = <<>>
    /\ idx = 0
    /\ results = <<>>
    /\ reports = <<>>
    /\ pc = "idle"
    /\ rule = NoRule
    /\ doc_text = <<>>
    /\ outcome = Pending

\* Load rules: both accepted shapes, ValueError otherwise.
LoadRules ==
    /\ mpc = "load_rules"
    /\ IF raw.shape \in {"wrapped", "list"}
       THEN rules' = raw.rules /\ mpc' = "load_facts"
       ELSE rules' = rules /\ mpc' = "aborted"
    /\ UNCHANGED <<raw, facts_file, files, text_cache, idx, results, reports, ops_facts>>
    /\ UNCHANGED evalVars

\* Optional ops_facts: any failure to read them leaves None.
LoadOpsFacts ==
    /\ mpc = "load_facts"
    /\ ops_facts' = IF facts_file.given /\ facts_file.readable THEN facts_file.content ELSE NoFacts
    /\ mpc' = "load_docs"
    /\ UNCHANGED <<raw, facts_file, files, rules, text_cache, idx, results, reports>>
    /\ UNCHANGED evalVars

LoadDocuments ==
    /\ mpc = "load_docs"
    /\ text_cache' = [k \in DOC_KEYS |-> load_text_from_doc(files[k])]
    /\ mpc' = "eval"
    /\ UNCHANGED <<raw, facts_file, files, rules, idx, results, reports, ops_facts>>
    /\ UNCHANGED evalVars

\* One iteration of "for r in rules"; an exception of the evaluator is not
\* caught and ends main.
EvaluateRule ==
    /\ mpc = "eval"
    /\ idx < Len(rules)
    /\ LET r == rules[idx + 1]
           text == CombinedText(text_cache, SourceDocs(r))
           out == evaluate_rule_semantic(r, text, ops_facts)
       IN  /\ rule' = r
           /\ doc_text' = text
           /\ outcome' = out
           /\ IF out.kind = "raise"
              THEN mpc' = "aborted" /\ UNCHANGED <<idx, results>>
              ELSE /\ mpc' = "eval"
                   /\ idx' = idx + 1
                   /\ results' = AppendRow(results, ReportRow(r, out))
    /\ UNCHANGED <<pc, raw, facts_file, files, rules, text_cache, reports, ops_facts>>

\* df.to_excel(output_xlsx_path), after the loop.
Export ==
    /\ mpc = "eval"
    /\ idx = Len(rules)
    /\ reports' = Append(reports, results)
    /\ mpc' = "done"
    /\ UNCHANGED <<raw, facts_file, files, rules, text_cache, idx, results, ops_facts>>
    /\ UNCHANGED evalVars

NextMain == LoadRules \/ LoadOpsFacts \/ LoadDocuments \/ EvaluateRule \/ Export

SpecMain == InitMain /\ [][NextMain]_vars

\* ------------------------------------------------- vocabulary of the claims
\* The call has returned an Outcome (it did not raise).
Returned == pc = "return" /\ outcome.kind = "outcome"

OnSemanticPath == rule.checks = <<>>

\* The rule's fields have the types of the data model.
WellTyped ==
    /\ rule.positive_patterns.kind \in {"absent", "list"}
    /\ rule.negative_patterns.kind \in {"absent", "list"}
    /\ rule.forbidden_claims.kind \in {"absent", "list"}
    /\ rule.threshold.kind \in {"absent", "int"}
    /\ rule.negation_window_tokens.kind \in {"absent", "int"}

\* Some non-empty pattern of the list occurs in the text, ignoring case.
PatternOccurs(field, text) ==
    \E k \in 1..Len(field.pats) :
        /\ field.pats[k] # <<>>
        /\ \E i \in 0..Len(text) : MatchAtI(field.pats[k], text, i)

ForbiddenClaimPresent == PatternOccurs(rule.forbidden_claims, doc_text)

N == ToInt(rule.threshold, 1).val
Window == CharWindow(ToInt(rule.negation_window_tokens, 12).val)
PositiveMatches == PositiveSpans(any_regex(rule.positive_patterns), doc_text)
CleanMatches ==
    CleanSpans(any_regex(rule.positive_patterns), any_regex(rule.negative_patterns),
               doc_text, Window)
SuppressedMatches ==
    SuppressedSpans(any_regex(rule.positive_patterns), any_regex(rule.negative_patterns),
                    doc_text, Window)
Hits == Len(CleanMatches)

InSeq(x, xs) == \E k \in 1..Len(xs) : xs[k] = x

FactsAvailable == Truthy(ops_facts) \/ Truthy(rule.ops_facts)
Facts == EffectiveFacts(rule.ops_facts, ops_facts)
OnAlignBranch == RuleTypeOf(rule) = "align_with_opspecs" /\ FactsAvailable

\* The codes of the registration shape that stand in the text and whose upper
\* case form is not an expected registration.
UnexpectedCodes ==
    LET expected == {UpperStr(Facts.registrations[k]) : k \in 1..Len(Facts.registrations)}
        places == {q \in (0..Len(doc_text)) \X (1..2) :
                      /\ q[1] + q[2] + 4 <= Len(doc_text)
                      /\ WordBoundary(doc_text, q[1])
                      /\ RegShapeAt(doc_text, q[1], q[2])}
        codes == {Slice(doc_text, q[1], q[1] + q[2] + 4) : q \in places}
    IN  {code \in codes : UpperStr(code) \notin expected}

\* The missing-notes the fact alignment checker produces for this call.
MissingNotes == AlignNotes(Facts, doc_text)

\* The alignment branch returns (CONFLICT or MISSING 0.2) instead of deferring.
AlignmentDecides ==
    /\ OnAlignBranch
    /\ \/ SuppressedMatches # <<>>
       \/ (Facts.registrations # <<>> /\ UnexpectedCodes # {})
       \/ (MissingNotes # <<>> /\ Hits < N)

\* ------------------------------------------------------------------ claims
\* C1: on the semantic path, for the four rule types, a forbidden_claims
\* pattern that matches the text makes the Outcome CONFLICT with confidence
\* 0.95, notes "Forbidden claim(s) present" and no positive evidence, whatever
\* the positive hits, the threshold, the negation settings and the ops_facts.
C1_ForbiddenWins ==
    (/\ Returned /\ OnSemanticPath /\ WellTyped
     /\ RuleTypeOf(rule) \in RuleTypes
     /\ ForbiddenClaimPresent)
    => /\ outcome.decision = "CONFLICT"
       /\ outcome.confidence = 95
       /\ outcome.notes = <<Note("Forbidden claim(s) present")>>
       /\ outcome.matched_positive = <<>>

\* A forbidden claim wins over clean positive hits that meet the threshold.
C1_Witness ==
    /\ Returned /\ OnSemanticPath /\ WellTyped
    /\ RuleTypeOf(rule) \in RuleTypes
    /\ ForbiddenClaimPresent
    /\ N >= 1 /\ Hits >= N
    /\ outcome.decision = "CONFLICT"

\* C2: a positive match with a negative match inside its window does not count
\* toward the threshold and appears in matched_forbidden of the returned
\* Outcome; when the only positive match is suppressed (threshold 1, no
\* forbidden claim, affirm) the Outcome is MISSING with matched_forbidden
\* non-empty.
C2_NegationSuppression ==
    (/\ Returned /\ OnSemanticPath /\ WellTyped
     /\ RuleTypeOf(rule) = "affirm"
     /\ ~ForbiddenClaimPresent
     /\ SuppressedMatches # <<>>)
    => /\ Len(outcome.matched_positive) <= Len(PositiveMatches) - Len(SuppressedMatches)
       /\ \A k \in 1..Len(SuppressedMatches) :
             InSeq(snippet(doc_text, SuppressedMatches[k][1], SuppressedMatches[k][2]),
                   outcome.matched_forbidden)
       /\ (N = 1 /\ Len(PositiveMatches) = 1)
             => (outcome.decision = "MISSING" /\ outcome.matched_forbidden # <<>>)

\* C3: at the final decision step with threshold N >= 1 the decision is FOUND
\* iff hits >= N, and the FOUND confidence is min(1.0, 0.6 + 0.2*(hits - N)):
\* 0.6 at hits = N, never above 1.0.
C3_ThresholdBoundary ==
    (/\ Returned /\ OnSemanticPath /\ WellTyped
     /\ N >= 1
     /\ ~(ForbiddenClaimPresent /\ RuleTypeOf(rule) \in RuleTypes)
     /\ ~AlignmentDecides)
    => /\ (outcome.decision = "FOUND") <=> (Hits >= N)
       /\ Hits = N - 1 => outcome.decision # "FOUND"
       /\ outcome.decision = "FOUND" =>
             /\ outcome.confidence = Min(100, 60 + 20 * (Hits - N))
             /\ outcome.confidence >= 60 /\ outcome.confidence <= 100
             /\ Hits = N => outcome.confidence = 60

\* Exactly N clean hits with N above 1: FOUND at confidence 0.6.
C3_Witness ==
    /\ Returned /\ OnSemanticPath /\ WellTyped
    /\ N >= 2 /\ Hits = N
    /\ ~AlignmentDecides
    /\ outcome.decision = "FOUND" /\ outcome.confidence = 60

\* Some pattern of some legacy check, lowercased, is a substring of the
\* lowercased text.
AnyCheckPatternInText ==
    \E c \in 1..Len(rule.checks) : \E k \in 1..Len(rule.checks[c].patterns) :
        Contains(LowerStr(doc_text), LowerStr(rule.checks[c].patterns[k]))

\* The same, for the non-empty patterns of the checks of type "contains_any".
ContainsAnyPatternInText ==
    \E c \in 1..Len(rule.checks) :
        /\ rule.checks[c].type = "contains_any"
        /\ \E k \in 1..Len(rule.checks[c].patterns) :
              /\ rule.checks[c].patterns[k] # <<>>
              /\ Contains(LowerStr(doc_text), LowerStr(rule.checks[c].patterns[k]))

\* C4 as stated: with a non-empty checks list the decision is FOUND iff some
\* pattern of those checks is a case-insensitive substring of the text, MISSING
\* otherwise, with confidence 0.6 / 0.0.
C4_LegacyAnyPattern ==
    (pc = "return" /\ rule.checks # <<>>)
    => /\ outcome.kind = "outcome"
       /\ outcome.decision = (IF AnyCheckPatternInText THEN "FOUND" ELSE "MISSING")
       /\ outcome.confidence = (IF AnyCheckPatternInText THEN 60 ELSE 0)

\* C4 (amended): with a non-empty checks list the decision is FOUND iff some
\* non-empty pattern of a check of type "contains_any" is a case-insensitive
\* substring of the text, MISSING otherwise; confidence is 0.6 / 0.0; the call
\* never raises and carries no evidence lists, so the rule's other fields and
\* the ops_facts have no effect.
C4_LegacyPath ==
    (pc = "return" /\ rule.checks # <<>>)
    => /\ outcome.kind = "outcome"
       /\ outcome.decision = (IF ContainsAnyPatternInText THEN "FOUND" ELSE "MISSING")
       /\ outcome.confidence = (IF ContainsAnyPatternInText THEN 60 ELSE 0)
       /\ outcome.matched_positive = <<>>
       /\ outcome.matched_forbidden = <<>>

\* A legacy hit decides FOUND although a forbidden claim stands in the text
\* and the pattern differs from the text in case.
C4_Witness ==
    /\ pc = "return" /\ rule.checks # <<>>
    /\ ForbiddenClaimPresent
    /\ ~(\E c \in 1..Len(rule.checks) : \E k \in 1..Len(rule.checks[c].patterns) :
            rule.checks[c].patterns[k] # <<>> /\ Contains(doc_text, rule.checks[c].patterns[k]))
    /\ outcome.decision = "FOUND" /\ outcome.confidence = 60

\* C5: an align_with_opspecs rule with available facts naming registrations
\* and no forbidden-claim match: every code of the registration shape in the
\* text that is not an expected registration is flagged in matched_forbidden
\* and the decision is CONFLICT with confidence 0.9, also when the clean hits
\* meet the threshold.
C5_AlignmentExtras ==
    (/\ Returned /\ OnSemanticPath /\ WellTyped
     /\ OnAlignBranch
     /\ Facts.registrations # <<>>
     /\ ~ForbiddenClaimPresent
     /\ UnexpectedCodes # {})
    => /\ outcome.decision = "CONFLICT"
       /\ outcome.confidence = 90
       /\ \A code \in UnexpectedCodes : InSeq(ExtraPrefix \o code, outcome.matched_forbidden)

\* An extra registration overrides clean hits that meet the threshold.
C5_Witness ==
    /\ Returned /\ OnSemanticPath /\ WellTyped
    /\ OnAlignBranch
    /\ Facts.registrations # <<>>
    /\ UnexpectedCodes # {}
    /\ SuppressedMatches = <<>>
    /\ N >= 1 /\ Hits >= N
    /\ outcome.decision = "CONFLICT" /\ outcome.confidence = 90

\* The rule brings none of the fatal input errors: its patterns compile and
\* its numbers parse.
NoFatalInput ==
    /\ \A f \in {rule.positive_patterns, rule.negative_patterns, rule.forbidden_claims} :
          \A k \in 1..Len(f.pats) : ~Malformed(f.pats[k])
    /\ rule.threshold.kind # "badstr"
    /\ rule.negation_window_tokens.kind # "badstr"

\* On empty text the fact alignment checker has something to report missing.
EmptyTextMissingNotes ==
    \/ \E k \in 1..Len(Facts.registrations) : Facts.registrations[k] # <<>>
    \/ (Facts.area # <<>> /\ \A k \in 1..Len(Facts.area) : Facts.area[k] # <<>>)

\* C6 as stated: against the empty text every rule of the data model (legacy,
\* or semantic with threshold >= 1 and no fatal input error) returns MISSING
\* with confidence 0.0 and raises nothing.
C6_EmptyTextAlwaysZero ==
    (/\ pc = "return" /\ doc_text = <<>>
     /\ OnSemanticPath => (NoFatalInput /\ N >= 1))
    => /\ outcome.kind = "outcome"
       /\ outcome.decision = "MISSING"
       /\ outcome.confidence = 0

\* C6 (amended): against the empty text every legacy rule, and every semantic
\* rule with threshold >= 1 that brings no fatal input error, raises nothing
\* and returns MISSING; the confidence is 0.0, except that it is 0.2 when the
\* rule is align_with_opspecs with available facts that name a registration
\* or an area (the alignment branch reports them missing).
C6_EmptyText ==
    (/\ pc = "return" /\ doc_text = <<>>
     /\ OnSemanticPath => (NoFatalInput /\ N >= 1))
    => /\ outcome.kind = "outcome"
       /\ outcome.decision = "MISSING"
       /\ outcome.confidence =
             (IF OnSemanticPath /\ OnAlignBranch /\ EmptyTextMissingNotes THEN 20 ELSE 0)

\* Empty text, alignment rule with facts: MISSING at confidence 0.2.
C6_Witness ==
    /\ Returned /\ doc_text = <<>>
    /\ OnSemanticPath /\ OnAlignBranch
    /\ outcome.decision = "MISSING" /\ outcome.confidence = 20

\* The rule's threshold is not an integer, or a pattern field is not a list.
MalformedShape ==
    \/ rule.threshold.kind \in {"numstr", "badstr"}
    \/ \E f \in {rule.positive_patterns, rule.negative_patterns, rule.forbidden_claims} :
          f.kind = "str"

\* C8: a rule whose threshold is not an integer or whose pattern fields are
\* not lists never gets an Outcome: its evaluation ends in an error, on every
\* path, legacy checks included.
C8_MalformedFailsFast ==
    (pc = "return" /\ MalformedShape) => outcome.kind = "raise"

\* C9: on the alignment branch, without a forbidden claim and without an
\* unexpected registration code, the decision is never CONFLICT: it is MISSING
\* 0.2 when there are missing-notes and hits < threshold, and the final-step
\* decision otherwise, also when a positive match was suppressed.
C9_AlignmentAsymmetry ==
    (/\ Returned /\ OnSemanticPath /\ WellTyped
     /\ OnAlignBranch
     /\ ~ForbiddenClaimPresent
     /\ (Facts.registrations = <<>> \/ UnexpectedCodes = {}))
    => /\ outcome.decision # "CONFLICT"
       /\ IF MissingNotes # <<>> /\ Hits < N
          THEN outcome.decision = "MISSING" /\ outcome.confidence = 20
          ELSE /\ Hits >= N => outcome.decision = "FOUND"
               /\ Hits < N => \/ outcome.decision = "REVIEW"
                              \/ outcome.decision = "MISSING" /\ outcome.confidence = 0

\* C10: every returned Outcome has one of the four decisions and the
\* confidence the scoring table fixes for it; FOUND carries no
\* matched_forbidden, a forbidden-claim CONFLICT no matched_positive, and
\* MISSING 0.2 comes from the alignment branch only.
C10_ScoringTable ==
    Returned
    => /\ outcome.decision \in {"FOUND", "MISSING", "CONFLICT", "REVIEW"}
       /\ outcome.confidence \in 0..100
       /\ outcome.decision = "CONFLICT" => outcome.confidence \in {95, 90}
       /\ outcome.decision = "REVIEW" => outcome.confidence = 50
       /\ outcome.decision = "MISSING" => outcome.confidence \in {0, 20}
       /\ outcome.decision = "FOUND" => outcome.confidence \in {60, 80, 100}
       /\ outcome.decision = "FOUND" => outcome.matched_forbidden = <<>>
       /\ (outcome.decision = "CONFLICT" /\ outcome.confidence = 95)
             => outcome.matched_positive = <<>>
       /\ (outcome.decision = "MISSING" /\ outcome.confidence = 20)
             => (OnSemanticPath /\ OnAlignBranch)

\* FOUND with more surplus hits than the cap admits: confidence 1.0.
C10_Witness ==
    /\ Returned /\ OnSemanticPath
    /\ Hits - N >= 3
    /\ outcome.decision = "FOUND" /\ outcome.confidence = 100

\* C11: a returned REVIEW has 1 <= clean hits < threshold and at least one
\* positive match suppressed by a nearby negation; hence no REVIEW at threshold
\* 1 (the default) and none from an align_with_opspecs rule with facts
\* available.
C11_ReviewReachability ==
    (Returned /\ OnSemanticPath /\ outcome.decision = "REVIEW")
    => /\ 1 <= Hits /\ Hits < N
       /\ SuppressedMatches # <<>>
       /\ N # 1
       /\ ~OnAlignBranch

\* The same statement for the four rule types the forbidden-claim guard
\* covers, where a forbidden match has already returned CONFLICT.
C11_ReviewOfGuardedTypes ==
    (Returned /\ OnSemanticPath /\ outcome.decision = "REVIEW"
     /\ RuleTypeOf(rule) \in RuleTypes)
    => /\ 1 <= Hits /\ Hits < N
       /\ SuppressedMatches # <<>>
       /\ N # 1
       /\ ~OnAlignBranch

\* A REVIEW of a guarded rule type: one clean hit below threshold 2 next to a
\* suppressed one.
C11_ReviewReached ==
    /\ Returned /\ OnSemanticPath /\ WellTyped
    /\ RuleTypeOf(rule) \in RuleTypes
    /\ outcome.decision = "REVIEW"
    /\ Hits = 1 /\ N = 2 /\ SuppressedMatches # <<>>

\* --------------------------------------------------- claims about main
\* The row main builds for rule i of the rule list.
RowOfRule(i) ==
    ReportRow(rules[i],
              evaluate_rule_semantic(rules[i], CombinedText(text_cache, SourceDocs(rules[i])),
                                     ops_facts))

\* Rule r is on the semantic path and carries one of the fatal input errors
\* (a pattern that does not compile, a number that does not parse).
HasFatalInput(r) ==
    /\ r.checks = <<>>
    /\ \/ \E f \in {r.positive_patterns, r.negative_patterns, r.forbidden_claims} :
             \E k \in 1..Len(f.pats) : Malformed(f.pats[k])
       \/ r.threshold.kind = "badstr"
       \/ r.negation_window_tokens.kind = "badstr"

\* The text of document key k as the disk holds it: empty for a key that is
\* not mapped, a file that is absent, a file that cannot be read.
TextOnDisk(k) ==
    IF k \in DOC_KEYS /\ files[k].exists /\ files[k].readable THEN files[k].content ELSE <<>>

\* C7: main takes the rules in input order, one at a time; the report is
\* written once, after the last rule, with one row per rule, row i built from
\* rule i; after a fatal error (unsupported container, rule that raises) no
\* report is written, whatever rows were collected; a document key that is
\* unknown or unreadable counts as empty text and never ends the run.
C7_ReportAssembly ==
    /\ Len(reports) <= 1
    /\ Len(results) = idx /\ idx <= Len(rules)
    /\ \A i \in 1..Len(results) : results[i] = RowOfRule(i)
    /\ reports # <<>> => /\ mpc = "done"
                         /\ idx = Len(rules)
                         /\ reports[1] = results
                         /\ \A i \in 1..Len(rules) : ~HasFatalInput(rules[i])
    /\ mpc = "done" => Len(reports) = 1
    /\ mpc = "aborted" => /\ reports = <<>>
                          /\ \/ raw.shape = "other"
                             \/ idx < Len(rules) /\ HasFatalInput(rules[idx + 1])
    /\ rule # NoRule =>
          doc_text = Join(<<"\n">>, [k \in 1..Len(SourceDocs(rule)) |-> TextOnDisk(SourceDocs(rule)[k])])

\* A run that ends with the report written, over two different rules, one of
\* which names a document key that is not mapped.
C7_Witness ==
    /\ mpc = "done"
    /\ Len(rules) >= 2 /\ rules[1] # rules[2]
    /\ reports = <<results>>
    /\ \E i \in 1..Len(rules) : InSeq("Annex", SourceDocs(rules[i]))

====
